---- MODULE Spec2Model ----
(***************************************************************************)
(* Model of omnihost/config.py: the JSON preference store kept in          *)
(* ~/.omnihost/config.json and the accessors and mutators over it.         *)
(*                                                                         *)
(* A Python dict is a function from its keys to its values; a list is a   *)
(* sequence; the value None is the string None below, which is outside    *)
(* every set of names the model draws inputs from.  json.dump followed by *)
(* json.load is the identity on the documents of this module (string      *)
(* keys, strings, integers, booleans, None, lists of strings), up to the  *)
(* order of keys, which a function does not record.                        *)
(***************************************************************************)
EXTENDS Integers, Sequences, FiniteSets, TLC

\* ---------------------------------------------------------------- bounds
MaxGroupLen == 2            \* longest list handed to add_group
MaxCalls == 3               \* calls started in all, in the two-process specification

\* ------------------------------------------------------ program constants
DefaultParallel == 5
DefaultTimeout == 30

\* ------------------------------------------------------------ input sets
None == "None"
Servers == {"a", "b"}
ServerArgs == {"", "a"}                  \* str arguments, the empty one included
ServerInputs == {None, "", "a", "b"}     \* what resolve_server is asked
AliasPairs == {<<"a", "">>, <<"a", "b">>, <<"", "b">>}
GroupNames == {"g"}
TagServers == {"a"}
Tags == {"t", "u"}
Modes == {"compact"}
CmdNames == {"ll"}
Cmds == {"ls -l"}
Procs == {"p1", "p2"}

RECURSIVE SeqsUpTo(_, _)
SeqsUpTo(S, n) ==
  IF n = 0 THEN {<<>>}
  ELSE LET shorter == SeqsUpTo(S, n - 1)
       IN shorter \cup {Append(q, x) : q \in {r \in shorter : Len(r) = n - 1}, x \in S}

ServerLists == SeqsUpTo(Servers, MaxGroupLen)

\* ------------------------------------------------- dicts, lists, truthiness
EmptyDict == [k \in {} |-> None]
Has(d, k) == k \in DOMAIN d
Get(d, k, dflt) == IF k \in DOMAIN d THEN d[k] ELSE dflt
Put(d, k, v) == [x \in (DOMAIN d) \cup {k} |-> IF x = k THEN v ELSE d[x]]
Del(d, k) == [x \in (DOMAIN d) \ {k} |-> d[x]]
Contains(s, x) == \E i \in 1..Len(s) : s[i] = x
FirstIndex(s, x) == CHOOSE i \in 1..Len(s) : s[i] = x /\ \A j \in 1..(i - 1) : s[j] # x
ListRemove(s, x) ==
  LET i == FirstIndex(s, x)
  IN [j \in 1..(Len(s) - 1) |-> IF j < i THEN s[j] ELSE s[j + 1]]
Truthy(v) == v # None /\ v # ""

\* --------------------------------------------------------- the config file
\* kind: "absent" (no file), "invalid" (a file json.load rejects), "json"
NoFile == [kind |-> "absent", doc |-> EmptyDict]
BadFile == [kind |-> "invalid", doc |-> EmptyDict]

DefaultConfig ==
  [k \in {"default_server", "output_mode", "parallel_connections", "timeout",
          "groups", "server_tags", "command_aliases", "audit_enabled"} |->
     CASE k = "default_server" -> None
       [] k = "output_mode" -> "normal"
       [] k = "parallel_connections" -> DefaultParallel
       [] k = "timeout" -> DefaultTimeout
       [] k = "groups" -> EmptyDict
       [] k = "server_tags" -> EmptyDict
       [] k = "command_aliases" -> EmptyDict
       [] k = "audit_enabled" -> TRUE]

BackFill(config) ==
  LET c1 == IF ~Has(config, "groups") THEN Put(config, "groups", EmptyDict) ELSE config
      c2 == IF ~Has(c1, "server_tags") THEN Put(c1, "server_tags", EmptyDict) ELSE c1
      c3 == IF ~Has(c2, "command_aliases") THEN Put(c2, "command_aliases", EmptyDict) ELSE c2
      c4 == IF ~Has(c3, "audit_enabled") THEN Put(c3, "audit_enabled", TRUE) ELSE c3
  IN c4

\* load_config falling back to the defaults when json.load raises
load_config_defaultsOnError(f) ==
  IF f.kind = "absent" THEN DefaultConfig
  ELSE IF f.kind = "invalid" THEN DefaultConfig
  ELSE BackFill(f.doc)

load_config(f) ==
  IF f.kind = "absent" THEN DefaultConfig
  ELSE IF f.kind = "invalid" THEN EmptyDict
  ELSE BackFill(f.doc)

save_config(config) == [kind |-> "json", doc |-> config]

\* A mutator's in-memory part: the document it built and whether it saves.
Saved(config) == [save |-> TRUE, config |-> config]
NotSaved(config) == [save |-> FALSE, config |-> config]

\* ------------------------------------------------------------- accessors
get_default_server(f) == Get(load_config(f), "default_server", None)

get_server_alias(f, alias) ==
  LET aliases == Get(load_config(f), "aliases", EmptyDict)
  IN Get(aliases, alias, None)

\* resolve_server looking the input up as an alias before testing it
resolve_server_aliasFirst(f, server_input) ==
  LET alias_result == get_server_alias(f, server_input)
  IN IF Truthy(alias_result) THEN alias_result
     ELSE IF Truthy(server_input) THEN server_input
     ELSE get_default_server(f)

resolve_server(f, server_input) ==
  IF Truthy(server_input)
  THEN LET alias_result == get_server_alias(f, server_input)
       IN IF Truthy(alias_result) THEN alias_result ELSE server_input
  ELSE get_default_server(f)

\* -------------------------------------------------------------- mutators
\* set_default_server writing the key the getter does not read
set_default_server_wrongKey(config, server) == Saved(Put(config, "default", server))

set_default_server(config, server) == Saved(Put(config, "default_server", server))

\* set_output_mode without its save_config
set_output_mode_noSave(config, mode) == NotSaved(Put(config, "output_mode", mode))

set_output_mode(config, mode) == Saved(Put(config, "output_mode", mode))

set_server_alias(config, alias, server) ==
  LET c == IF ~Has(config, "aliases") THEN Put(config, "aliases", EmptyDict) ELSE config
  IN Saved(Put(c, "aliases", Put(c["aliases"], alias, server)))

add_group(config, group_name, servers) ==
  LET c == IF ~Has(config, "groups") THEN Put(config, "groups", EmptyDict) ELSE config
  IN Saved(Put(c, "groups", Put(c["groups"], group_name, servers)))

\* remove_group with save_config outside the if
remove_group_alwaysSaves(config, group_name) ==
  IF Has(config, "groups") /\ Has(config["groups"], group_name)
  THEN Saved(Put(config, "groups", Del(config["groups"], group_name)))
  ELSE Saved(config)

remove_group(config, group_name) ==
  IF Has(config, "groups") /\ Has(config["groups"], group_name)
  THEN Saved(Put(config, "groups", Del(config["groups"], group_name)))
  ELSE NotSaved(config)

\* add_server_to_group without the membership test
add_server_to_group_noCheck(config, group_name, server) ==
  LET c1 == IF ~Has(config, "groups") THEN Put(config, "groups", EmptyDict) ELSE config
      c2 == IF ~Has(c1["groups"], group_name)
            THEN Put(c1, "groups", Put(c1["groups"], group_name, <<>>)) ELSE c1
      members == c2["groups"][group_name]
  IN Saved(Put(c2, "groups", Put(c2["groups"], group_name, Append(members, server))))

add_server_to_group(config, group_name, server) ==
  LET c1 == IF ~Has(config, "groups") THEN Put(config, "groups", EmptyDict) ELSE config
      c2 == IF ~Has(c1["groups"], group_name)
            THEN Put(c1, "groups", Put(c1["groups"], group_name, <<>>)) ELSE c1
      members == c2["groups"][group_name]
  IN IF ~Contains(members, server)
     THEN Saved(Put(c2, "groups", Put(c2["groups"], group_name, Append(members, server))))
     ELSE Saved(c2)

remove_server_from_group(config, group_name, server) ==
  IF Has(config, "groups") /\ Has(config["groups"], group_name)
     /\ Contains(config["groups"][group_name], server)
  THEN Saved(Put(config, "groups",
                 Put(config["groups"], group_name,
                     ListRemove(config["groups"][group_name], server))))
  ELSE NotSaved(config)

\* add_tag_to_server without the membership test
add_tag_to_server_noCheck(config, server, tag) ==
  LET c1 == IF ~Has(config, "server_tags") THEN Put(config, "server_tags", EmptyDict) ELSE config
      c2 == IF ~Has(c1["server_tags"], server)
            THEN Put(c1, "server_tags", Put(c1["server_tags"], server, <<>>)) ELSE c1
      tags == c2["server_tags"][server]
  IN Saved(Put(c2, "server_tags", Put(c2["server_tags"], server, Append(tags, tag))))

add_tag_to_server(config, server, tag) ==
  LET c1 == IF ~Has(config, "server_tags") THEN Put(config, "server_tags", EmptyDict) ELSE config
      c2 == IF ~Has(c1["server_tags"], server)
            THEN Put(c1, "server_tags", Put(c1["server_tags"], server, <<>>)) ELSE c1
      tags == c2["server_tags"][server]
  IN IF ~Contains(tags, tag)
     THEN Saved(Put(c2, "server_tags", Put(c2["server_tags"], server, Append(tags, tag))))
     ELSE Saved(c2)

remove_tag_from_server(config, server, tag) ==
  IF Has(config, "server_tags") /\ Has(config["server_tags"], server)
     /\ Contains(config["server_tags"][server], tag)
  THEN Saved(Put(config, "server_tags",
                 Put(config["server_tags"], server,
                     ListRemove(config["server_tags"][server], tag))))
  ELSE NotSaved(config)

add_command_alias(config, alias, command) ==
  LET c == IF ~Has(config, "command_aliases")
           THEN Put(config, "command_aliases", EmptyDict) ELSE config
  IN Saved(Put(c, "command_aliases", Put(c["command_aliases"], alias, command)))

remove_command_alias(config, alias) ==
  IF Has(config, "command_aliases") /\ Has(config["command_aliases"], alias)
  THEN Saved(Put(config, "command_aliases", Del(config["command_aliases"], alias)))
  ELSE NotSaved(config)

\* ------------------------------------------------------------------ state
VARIABLES
  dirExists,   \* CONFIG_DIR exists
  file,        \* CONFIG_FILE
  pre,         \* CONFIG_FILE as it was when the last call began
  last,        \* the last call: its name, arguments and return value; rep is
               \* "none", or, when the call repeats the call before it, the
               \* kind of file that earlier call found
  pc,          \* per process: "idle", or "loaded" (between load_config and save_config)
  loc,         \* per process: the call in progress and its local config
  stale,       \* per process: the save another process made since this one loaded
  race,        \* set by a save that overwrote another process's overlapping save
  calls        \* calls started by the processes

vars == <<dirExists, file, pre, last, pc, loc, stale, race, calls>>

NoCall == [op |-> "none", a1 |-> None, a2 |-> None, ret |-> None, rep |-> "none"]
IdleLoc == [op |-> "none", a1 |-> None, a2 |-> None, base |-> NoFile, config |-> EmptyDict]
NoStale == [set |-> FALSE, op |-> "none", config |-> EmptyDict]
NoRace == [happened |-> FALSE, first |-> NoStale, last |-> IdleLoc]

Init ==
  /\ dirExists = FALSE
  /\ file = NoFile
  /\ pre = NoFile
  /\ last = NoCall
  /\ pc = [p \in Procs |-> "idle"]
  /\ loc = [p \in Procs |-> IdleLoc]
  /\ stale = [p \in Procs |-> NoStale]
  /\ race = NoRace
  /\ calls = 0

concVars == <<pc, loc, stale, race, calls>>

\* ------------------------------------- one process, each call one step
\* A getter: load_config (which makes the directory), nothing written.
Getter(op, a1, ret) ==
  /\ dirExists' = TRUE
  /\ pre' = file
  /\ last' = [op |-> op, a1 |-> a1, a2 |-> None, ret |-> ret, rep |-> "none"]
  /\ UNCHANGED <<file, concVars>>

\* A mutator: load_config, the in-memory change r, save_config when r.save.
Mutator(op, a1, a2, r) ==
  /\ dirExists' = TRUE
  /\ pre' = file
  /\ file' = IF r.save THEN save_config(r.config) ELSE file
  /\ last' = [op |-> op, a1 |-> a1, a2 |-> a2, ret |-> None,
              rep |-> IF last.op = op /\ last.a1 = a1 /\ last.a2 = a2
                      THEN pre.kind ELSE "none"]
  /\ UNCHANGED concVars

GetDefaultServer == Getter("get_default_server", None, get_default_server(file))

ResolveServer ==
  \E x \in ServerInputs : Getter("resolve_server", x, resolve_server(file, x))

SetDefaultServer ==
  \E s \in ServerArgs :
    Mutator("set_default_server", s, None, set_default_server(load_config(file), s))

SetOutputMode ==
  \E m \in Modes : Mutator("set_output_mode", m, None, set_output_mode(load_config(file), m))

SetServerAlias ==
  \E as \in AliasPairs :
    Mutator("set_server_alias", as[1], as[2],
            set_server_alias(load_config(file), as[1], as[2]))

AddGroup ==
  \E g \in GroupNames, l \in ServerLists :
    Mutator("add_group", g, l, add_group(load_config(file), g, l))

RemoveGroup ==
  \E g \in GroupNames : Mutator("remove_group", g, None, remove_group(load_config(file), g))

AddServerToGroup ==
  \E g \in GroupNames, s \in Servers :
    Mutator("add_server_to_group", g, s, add_server_to_group(load_config(file), g, s))

RemoveServerFromGroup ==
  \E g \in GroupNames, s \in Servers :
    Mutator("remove_server_from_group", g, s,
            remove_server_from_group(load_config(file), g, s))

AddTagToServer ==
  \E s \in TagServers, t \in Tags :
    Mutator("add_tag_to_server", s, t, add_tag_to_server(load_config(file), s, t))

RemoveTagFromServer ==
  \E s \in TagServers, t \in Tags :
    Mutator("remove_tag_from_server", s, t, remove_tag_from_server(load_config(file), s, t))

AddCommandAlias ==
  \E a \in CmdNames, c \in Cmds :
    Mutator("add_command_alias", a, c, add_command_alias(load_config(file), a, c))

RemoveCommandAlias ==
  \E a \in CmdNames :
    Mutator("remove_command_alias", a, None, remove_command_alias(load_config(file), a))

\* The file on disk is damaged from outside: json.load will raise on it.
CorruptFile ==
  /\ file.kind = "json"
  /\ file' = BadFile
  /\ pre' = file
  /\ last' = [op |-> "corrupt", a1 |-> None, a2 |-> None, ret |-> None, rep |-> "none"]
  /\ UNCHANGED <<dirExists, concVars>>

Next ==
  \/ GetDefaultServer
  \/ ResolveServer
  \/ SetDefaultServer
  \/ SetOutputMode
  \/ SetServerAlias
  \/ AddGroup
  \/ RemoveGroup
  \/ AddServerToGroup
  \/ RemoveServerFromGroup
  \/ AddTagToServer
  \/ RemoveTagFromServer
  \/ AddCommandAlias
  \/ RemoveCommandAlias
  \/ CorruptFile

Spec == Init /\ [][Next]_vars

\* --------------------- two processes, load_config and save_config as steps
\* The top-level key a mutator writes into.
TopKey(op) ==
  CASE op = "set_default_server" -> "default_server"
    [] op = "set_output_mode" -> "output_mode"
    [] op = "set_server_alias" -> "aliases"
    [] op \in {"add_group", "remove_group", "add_server_to_group",
               "remove_server_from_group"} -> "groups"
    [] op \in {"add_tag_to_server", "remove_tag_from_server"} -> "server_tags"
    [] op \in {"add_command_alias", "remove_command_alias"} -> "command_aliases"
    [] OTHER -> "none"

\* Process p runs a mutator up to its save_config: load_config and the change
\* in memory.  A mutator that does not save has returned.
Begin(p, op, a1, a2, r) ==
  /\ pc[p] = "idle"
  /\ calls < MaxCalls
  /\ calls' = calls + 1
  /\ dirExists' = TRUE
  /\ pc' = [pc EXCEPT ![p] = IF r.save THEN "loaded" ELSE "idle"]
  /\ loc' = [loc EXCEPT ![p] = IF r.save
                               THEN [op |-> op, a1 |-> a1, a2 |-> a2,
                                     base |-> file, config |-> r.config]
                               ELSE IdleLoc]
  /\ race' = NoRace
  /\ UNCHANGED <<file, pre, last, stale>>

\* A save that re-reads the file and writes only the key p changed into it
Finish_merge(p) ==
  /\ pc[p] = "loaded"
  /\ file' = LET k == TopKey(loc[p].op)
             IN save_config(Put(load_config(file), k, loc[p].config[k]))
  /\ pc' = [pc EXCEPT ![p] = "idle"]
  /\ loc' = [loc EXCEPT ![p] = IdleLoc]
  /\ stale' = [q \in Procs |->
                 IF q # p /\ pc[q] = "loaded"
                 THEN [set |-> TRUE, op |-> loc[p].op, config |-> loc[p].config]
                 ELSE IF q = p THEN NoStale ELSE stale[q]]
  /\ race' = IF stale[p].set
             THEN [happened |-> TRUE, first |-> stale[p], last |-> loc[p]]
             ELSE NoRace
  /\ UNCHANGED <<dirExists, pre, last, calls>>

\* Process p's save_config: the whole file is overwritten with p's document.
Finish(p) ==
  /\ pc[p] = "loaded"
  /\ file' = save_config(loc[p].config)
  /\ pc' = [pc EXCEPT ![p] = "idle"]
  /\ loc' = [loc EXCEPT ![p] = IdleLoc]
  /\ stale' = [q \in Procs |->
                 IF q # p /\ pc[q] = "loaded"
                 THEN [set |-> TRUE, op |-> loc[p].op, config |-> loc[p].config]
                 ELSE IF q = p THEN NoStale ELSE stale[q]]
  /\ race' = IF stale[p].set
             THEN [happened |-> TRUE, first |-> stale[p], last |-> loc[p]]
             ELSE NoRace
  /\ UNCHANGED <<dirExists, pre, last, calls>>

PSetDefaultServer ==
  \E p \in Procs, s \in ServerArgs :
    Begin(p, "set_default_server", s, None, set_default_server(load_config(file), s))

PSetOutputMode ==
  \E p \in Procs, m \in Modes :
    Begin(p, "set_output_mode", m, None, set_output_mode(load_config(file), m))

PSetServerAlias ==
  \E p \in Procs, as \in AliasPairs :
    Begin(p, "set_server_alias", as[1], as[2],
          set_server_alias(load_config(file), as[1], as[2]))

PAddGroup ==
  \E p \in Procs, g \in GroupNames, l \in ServerLists :
    Begin(p, "add_group", g, l, add_group(load_config(file), g, l))

PRemoveGroup ==
  \E p \in Procs, g \in GroupNames :
    Begin(p, "remove_group", g, None, remove_group(load_config(file), g))

PAddServerToGroup ==
  \E p \in Procs, g \in GroupNames, s \in Servers :
    Begin(p, "add_server_to_group", g, s, add_server_to_group(load_config(file), g, s))

PRemoveServerFromGroup ==
  \E p \in Procs, g \in GroupNames, s \in Servers :
    Begin(p, "remove_server_from_group", g, s,
          remove_server_from_group(load_config(file), g, s))

PAddTagToServer ==
  \E p \in Procs, s \in TagServers, t \in Tags :
    Begin(p, "add_tag_to_server", s, t, add_tag_to_server(load_config(file), s, t))

PRemoveTagFromServer ==
  \E p \in Procs, s \in TagServers, t \in Tags :
    Begin(p, "remove_tag_from_server", s, t,
          remove_tag_from_server(load_config(file), s, t))

PAddCommandAlias ==
  \E p \in Procs, a \in CmdNames, c \in Cmds :
    Begin(p, "add_command_alias", a, c, add_command_alias(load_config(file), a, c))

PRemoveCommandAlias ==
  \E p \in Procs, a \in CmdNames :
    Begin(p, "remove_command_alias", a, None,
          remove_command_alias(load_config(file), a))

PSave == \E p \in Procs : Finish(p)

NextConc ==
  \/ PSetDefaultServer
  \/ PSetOutputMode
  \/ PSetServerAlias
  \/ PAddGroup
  \/ PRemoveGroup
  \/ PAddServerToGroup
  \/ PRemoveServerFromGroup
  \/ PAddTagToServer
  \/ PRemoveTagFromServer
  \/ PAddCommandAlias
  \/ PRemoveCommandAlias
  \/ PSave

SpecConc == Init /\ [][NextConc]_vars

\* ================================================================ claims
\* What the file holds under top-level key k, read off the file itself.
Stored(f, k) == IF f.kind = "json" /\ Has(f.doc, k) THEN f.doc[k] ELSE EmptyDict
NoDup(s) == \A i, j \in 1..Len(s) : s[i] = s[j] => i = j
SetAddOps == {"set_default_server", "set_output_mode", "set_server_alias", "add_group",
              "add_server_to_group", "add_tag_to_server", "add_command_alias"}
RemoveOps == {"remove_group", "remove_server_from_group", "remove_tag_from_server",
              "remove_command_alias"}
BackFilledKeys == {"groups", "server_tags", "command_aliases", "audit_enabled"}

\* C1 (as stated): resolve_server of a non-empty input x returns y whenever the
\* aliases mapping in the file maps x to y, and x itself when x is not a key
\* of that mapping.
C1_AliasTargetReturned ==
  (last.op = "resolve_server" /\ Truthy(last.a1)) =>
    last.ret = IF Has(Stored(pre, "aliases"), last.a1)
               THEN Stored(pre, "aliases")[last.a1]
               ELSE last.a1

\* C2: resolve_server of None or "" returns what get_default_server returns on
\* the same file, that is the stored default_server, or None when the file
\* stores none, whatever the aliases mapping holds.
C2_NoInputGivesDefault ==
  (last.op = "resolve_server" /\ ~Truthy(last.a1)) =>
    /\ last.ret = get_default_server(pre)
    /\ last.ret = IF pre.kind = "json" /\ Has(pre.doc, "default_server")
                  THEN pre.doc["default_server"] ELSE None

C2_Witness ==
  /\ last.op = "resolve_server"
  /\ last.a1 = ""
  /\ Has(Stored(pre, "aliases"), "")
  /\ last.ret = "a"

\* C3 (as stated): every group in the file holds each server name at most once.
C3_GroupMembersUnique ==
  \A g \in DOMAIN Stored(file, "groups") : NoDup(Stored(file, "groups")[g])

\* C4: every server's tag list in the file holds each tag at most once.
C4_TagsUnique ==
  \A sv \in DOMAIN Stored(file, "server_tags") : NoDup(Stored(file, "server_tags")[sv])

C4_Witness ==
  /\ last.op = "add_tag_to_server"
  /\ Has(Stored(pre, "server_tags"), last.a1)
  /\ Contains(Stored(pre, "server_tags")[last.a1], last.a2)
  /\ Len(Stored(file, "server_tags")[last.a1]) = 2

\* The one-key document a saving setter leaves when it started from nothing.
OnlyWritten ==
  CASE last.op \in {"set_default_server", "set_output_mode"} ->
         [k \in {TopKey(last.op)} |-> last.a1]
    [] last.op \in {"set_server_alias", "add_group", "add_command_alias"} ->
         [k \in {TopKey(last.op)} |-> [n \in {last.a1} |-> last.a2]]
    [] last.op \in {"add_server_to_group", "add_tag_to_server"} ->
         [k \in {TopKey(last.op)} |-> [n \in {last.a1} |-> <<last.a2>>]]

\* C5: a file of invalid JSON loads as the empty document, and the next saving
\* setter leaves a file holding only the key that setter wrote.
C5_CorruptFileLosesAll ==
  pre.kind = "invalid" =>
    /\ load_config(pre) = EmptyDict
    /\ last.op \in SetAddOps => (file.kind = "json" /\ file.doc = OnlyWritten)

C5_Witness ==
  /\ pre.kind = "invalid"
  /\ last.op = "add_server_to_group"
  /\ file.kind = "json"
  /\ DOMAIN file.doc = {"groups"}

\* C6: with no config file get_default_server returns None and creates no
\* file; set_default_server(s) then leaves a file holding default_server = s
\* and every default key at its default value, and get_default_server gives s.
C6_FreshDefaultServer ==
  /\ (pre = NoFile /\ last.op = "get_default_server") =>
       (last.ret = None /\ file = NoFile)
  /\ (pre = NoFile /\ last.op = "set_default_server") =>
       /\ file.kind = "json"
       /\ DOMAIN file.doc = {"default_server", "output_mode", "parallel_connections",
                             "timeout", "groups", "server_tags", "command_aliases",
                             "audit_enabled"}
       /\ file.doc["default_server"] = last.a1
       /\ file.doc["output_mode"] = "normal"
       /\ file.doc["parallel_connections"] = 5
       /\ file.doc["timeout"] = 30
       /\ file.doc["groups"] = EmptyDict
       /\ file.doc["server_tags"] = EmptyDict
       /\ file.doc["command_aliases"] = EmptyDict
       /\ file.doc["audit_enabled"] = TRUE
       /\ get_default_server(file) = last.a1

C6_Witness ==
  /\ pre = NoFile
  /\ last.op = "set_default_server"
  /\ last.a1 = "a"
  /\ file.kind = "json"

\* C7: when a process saves after another process saved since it loaded, the
\* file is exactly the document of this last saver: what it loaded with its
\* own key changed, every other key as it loaded it, so that the earlier
\* saver's change is gone.
C7_LastWriterWins ==
  race.happened =>
    LET loaded == load_config(race.last.base)
        mine == TopKey(race.last.op)
    IN /\ file = [kind |-> "json", doc |-> race.last.config]
       /\ DOMAIN file.doc = (DOMAIN loaded) \cup {mine}
       /\ \A k \in (DOMAIN file.doc) \ {mine} : file.doc[k] = loaded[k]

C7_Witness ==
  /\ race.happened
  /\ race.first.op = "set_default_server"
  /\ race.first.config["default_server"] = "a"
  /\ race.last.op = "add_tag_to_server"
  /\ file.doc["default_server"] = None
  /\ file.doc["server_tags"] = [n \in {"a"} |-> <<"t">>]

\* C8: removing a group, a group member, a tag or a command alias that is not
\* there leaves the file, its existence included, exactly as it was.
C8_RemoveAbsentIsNoOp ==
  /\ (last.op = "remove_group" /\ ~Has(Stored(pre, "groups"), last.a1)) => file = pre
  /\ (last.op = "remove_server_from_group"
      /\ (~Has(Stored(pre, "groups"), last.a1)
          \/ ~Contains(Stored(pre, "groups")[last.a1], last.a2))) => file = pre
  /\ (last.op = "remove_tag_from_server"
      /\ (~Has(Stored(pre, "server_tags"), last.a1)
          \/ ~Contains(Stored(pre, "server_tags")[last.a1], last.a2))) => file = pre
  /\ (last.op = "remove_command_alias"
      /\ ~Has(Stored(pre, "command_aliases"), last.a1)) => file = pre

C8_Witness ==
  /\ last.op = "remove_server_from_group"
  /\ Has(Stored(pre, "groups"), last.a1)
  /\ Len(Stored(pre, "groups")[last.a1]) = 1
  /\ ~Contains(Stored(pre, "groups")[last.a1], last.a2)
  /\ file = pre

\* C9 (as stated): the second of two add_server_to_group(g, s) calls in a row
\* leaves the whole document as the first call left it.
C9_SecondAddChangesNothing ==
  (last.op = "add_server_to_group" /\ last.rep # "none") => file = pre

\* C9 (amended): the second call leaves every group's member list as the first
\* call left it; it leaves the whole document so unless the first call found
\* a file of invalid JSON, and then it only adds the back-filled keys.
C9_SecondAddAmended ==
  (last.op = "add_server_to_group" /\ last.rep # "none") =>
    /\ pre.kind = "json" /\ file.kind = "json"
    /\ file.doc["groups"] = pre.doc["groups"]
    /\ Contains(file.doc["groups"][last.a1], last.a2)
    /\ last.rep # "invalid" => file = pre
    /\ last.rep = "invalid" =>
         /\ DOMAIN file.doc = (DOMAIN pre.doc) \cup BackFilledKeys
         /\ \A k \in DOMAIN pre.doc : file.doc[k] = pre.doc[k]
         /\ file.doc["server_tags"] = EmptyDict
         /\ file.doc["command_aliases"] = EmptyDict
         /\ file.doc["audit_enabled"] = TRUE

C9_Witness ==
  /\ last.op = "add_server_to_group"
  /\ last.rep = "json"
  /\ Len(file.doc["groups"][last.a1]) = 2
  /\ file = pre

\* C10 (as stated): after any mutator returns the config file exists and
\* holds a document.
C10_EveryMutatorSaves ==
  last.op \in SetAddOps \cup RemoveOps => file.kind = "json"

\* The value the last mutator leaves under its top-level key, given the value
\* old that load_config found there.
C10_Written(old) ==
  LET entry == Get(old, last.a1, <<>>)
  IN CASE last.op \in {"set_default_server", "set_output_mode"} -> last.a1
       [] last.op \in {"set_server_alias", "add_group", "add_command_alias"} ->
            Put(old, last.a1, last.a2)
       [] last.op \in {"add_server_to_group", "add_tag_to_server"} ->
            Put(old, last.a1, IF Contains(entry, last.a2) THEN entry
                              ELSE Append(entry, last.a2))
       [] last.op \in {"remove_group", "remove_command_alias"} -> Del(old, last.a1)
       [] last.op \in {"remove_server_from_group", "remove_tag_from_server"} ->
            Put(old, last.a1, ListRemove(entry, last.a2))

\* Whether the thing the last remove_* call names was in the loaded document.
C10_Present(old) ==
  /\ Has(old, last.a1)
  /\ last.op \in {"remove_server_from_group", "remove_tag_from_server"} =>
       Contains(old[last.a1], last.a2)

\* C10 (amended): every set_* and add_* mutator ends with a save, after which
\* the file holds the loaded document with the mutator's change; a remove_*
\* mutator does so only when what it removes was there, and otherwise leaves
\* the file as it was, absent if it was absent.
C10_MutatorSavesAmended ==
  LET loaded == load_config(pre)
      mine == TopKey(last.op)
      old == Get(loaded, mine, EmptyDict)
      saved == /\ file.kind = "json"
               /\ DOMAIN file.doc = (DOMAIN loaded) \cup {mine}
               /\ \A k \in (DOMAIN file.doc) \ {mine} : file.doc[k] = loaded[k]
               /\ file.doc[mine] = C10_Written(old)
  IN /\ last.op \in SetAddOps => saved
     /\ last.op \in RemoveOps => IF C10_Present(old) THEN saved ELSE file = pre

C10_Witness ==
  /\ last.op = "remove_command_alias"
  /\ pre.kind = "json"
  /\ Has(Stored(pre, "command_aliases"), last.a1)
  /\ Has(Stored(pre, "groups"), "g")
  /\ file.kind = "json"
  /\ file.doc["command_aliases"] = EmptyDict
  /\ file.doc["groups"] = pre.doc["groups"]
====
